---- MODULE Spec2Model ----
(***************************************************************************)
(* A model of difftree's comparison engine (package difftreelib):         *)
(* ComparisonEngine.Compare and the goroutines it starts (the tree walker, *)
(* the comparison workers, the merge relays and the reporter), together    *)
(* with treeEntry's classification functions.                              *)
(*                                                                         *)
(* Strings are sequences of one-character strings, so that len(), indexing *)
(* and slicing of paths are what they are in the Go code.  The two trees   *)
(* are functions from relative paths (sequences of one-character names) to *)
(* nodes; tree 1 is mounted at Clean(path1), tree 2 at Clean(path2).       *)
(***************************************************************************)
EXTENDS Integers, Sequences, FiniteSets, Bags, TLC

VARIABLES
    args,       \* Compare's arguments: [path1, path2, options]
    fs,         \* the two directory trees on disk: [tree1, tree2] (read only)
    engine,     \* the ComparisonEngine: nine counters and path1RootLen
    cmpPc,      \* where Compare's goroutine is: start, fill, report, count, returned
    compareErr, \* what Compare returned: "" (it has not returned) or "nil"
    fillIdx,    \* the index i of Compare's loop queueing the blank entries
    treeEntries,    \* Compare's array of treeEntry, by index 1..numTreeEntries
    blankEntryChan, \* [buf: sequence of entry indexes, closed]
    filledEntryChan,\* [buf: sequence of entry indexes, closed]
    walker,     \* readTreeEntries: [pc, entry, todo, order]
    worker,     \* compareEntries, per worker: [pc, entry]; pc = "closed" is close(responseChan)
    relay,      \* mergeResponseChans' outputFunc, per worker: [pc, entry]
    wg,         \* mergeResponseChans' sync.WaitGroup counter
    outClosed,  \* whether the merged channel out is closed
    reportEntry,    \* the entry reportResults holds (0: none)
    panicked,   \* "" or the goroutine whose panic ended the process
    reports     \* the report made for each processed entry: a bag of
                \* <<relativePath, result, path1>>

vars == <<args, fs, engine, cmpPc, compareErr, fillIdx, treeEntries, blankEntryChan,
          filledEntryChan, walker, worker, relay, wg, outClosed, reportEntry,
          panicked, reports>>

----------------------------------------------------------------------------
(* Bounds of the model *)

\* runtime.NumCPU(): the number of comparison workers
NumWorkers == 2

\* permission bits are drawn from 0..MaxPerm
MaxPerm == 1

\* file sizes are drawn from 0..MaxSize; a file's content from 0..MaxSize too
MaxSize == 1

----------------------------------------------------------------------------
(* resultType *)

kNil == 0
kPerfectMatch == 1
kMissing == 2
kGoodEnough == 3
kMismatch == 4
kDifferentTypes == 5
kDifferentPermissions == 6
kDirSameEntries == 7
kDirDifferentEntries == 8
kError == 9
kIgnored == 10

----------------------------------------------------------------------------
(* Strings and paths *)

Separator == "/"

\* the components of s between separators (empty components included)
RECURSIVE SplitFrom(_, _, _)
SplitFrom(s, i, cur) ==
    IF i > Len(s) THEN <<cur>>
    ELSE IF s[i] = Separator THEN <<cur>> \o SplitFrom(s, i + 1, <<>>)
    ELSE SplitFrom(s, i + 1, Append(cur, s[i]))

Split(s) == SplitFrom(s, 1, <<>>)

RECURSIVE JoinComps(_)
JoinComps(cs) ==
    IF cs = <<>> THEN <<>>
    ELSE IF Len(cs) = 1 THEN cs[1]
    ELSE cs[1] \o <<Separator>> \o JoinComps(Tail(cs))

Front(s) == SubSeq(s, 1, Len(s) - 1)

\* path.Clean's pass over the components: drop "" and ".", resolve ".."
RECURSIVE CleanComps(_, _, _)
CleanComps(cs, out, rooted) ==
    IF cs = <<>> THEN out
    ELSE LET c == Head(cs) IN
         IF c = <<>> \/ c = <<".">> THEN CleanComps(Tail(cs), out, rooted)
         ELSE IF c = <<".", ".">> THEN
              IF out # <<>> /\ out[Len(out)] # <<".", ".">>
                  THEN CleanComps(Tail(cs), Front(out), rooted)
              ELSE IF rooted THEN CleanComps(Tail(cs), out, rooted)
              ELSE CleanComps(Tail(cs), Append(out, c), rooted)
         ELSE CleanComps(Tail(cs), Append(out, c), rooted)

\* path.Clean
Clean(p) ==
    LET rooted == Len(p) > 0 /\ p[1] = Separator
        out == CleanComps(Split(p), <<>>, rooted)
    IN IF rooted THEN <<Separator>> \o JoinComps(out)
       ELSE IF out = <<>> THEN <<".">>
       ELSE JoinComps(out)

\* filepath.Join of two elements: empty elements are ignored, the result is cleaned
Join(a, b) ==
    IF a = <<>> /\ b = <<>> THEN <<>>
    ELSE IF a = <<>> THEN Clean(b)
    ELSE IF b = <<>> THEN Clean(a)
    ELSE Clean(a \o <<Separator>> \o b)

\* filepath.Base: the last element of the path
Base(p) ==
    IF p = <<>> THEN <<".">>
    ELSE LET cs == SelectSeq(Split(p), LAMBDA c : c # <<>>)
         IN IF cs = <<>> THEN <<Separator>> ELSE cs[Len(cs)]

\* s[n:] of Go: the bytes after the first n
Slice(s, n) == SubSeq(s, n + 1, Len(s))

----------------------------------------------------------------------------
(* The file system *)

\* os.FileInfo, as far as the engine reads it; NilInfo is the nil interface
NilInfo == [type |-> "nil", perm |-> 0, size |-> 0]

Types == {"dir", "file", "symlink"}

InfoOf(node) == [type |-> node.type, perm |-> node.perm, size |-> node.size]

\* the path of a node of a tree mounted at root
RECURSIVE AbsPath(_, _)
AbsPath(root, rel) ==
    IF rel = <<>> THEN root
    ELSE Join(AbsPath(root, Front(rel)), <<rel[Len(rel)]>>)

\* Where path p lies in the tree mounted at root: [in |-> TRUE, rel |-> ...],
\* or in = FALSE when p is not a path of the mount
RelOf(root, p) ==
    IF p = root THEN [in |-> TRUE, rel |-> <<>>]
    ELSE IF Len(p) > Len(root) + 1
            /\ SubSeq(p, 1, Len(root)) = root
            /\ p[Len(root) + 1] = Separator
         THEN LET cs == Split(Slice(p, Len(root) + 1))
              IN IF \A i \in 1..Len(cs) : Len(cs[i]) = 1
                 THEN [in |-> TRUE, rel |-> [i \in 1..Len(cs) |-> cs[i][1]]]
                 ELSE [in |-> FALSE, rel |-> <<>>]
         ELSE [in |-> FALSE, rel |-> <<>>]

\* os.Lstat(p) on the tree mounted at root: [err, info];
\* err is "" (nil), "notexist" (os.IsNotExist) or "eacces" (another error)
Lstat(root, tree, p) ==
    LET at == RelOf(root, p) IN
    IF ~at.in \/ at.rel \notin DOMAIN tree THEN [err |-> "notexist", info |-> NilInfo]
    ELSE IF tree[at.rel].lstatErr THEN [err |-> "eacces", info |-> NilInfo]
    ELSE [err |-> "", info |-> InfoOf(tree[at.rel])]

\* ioutil.ReadDir(p) on the tree mounted at root: [err, names]
ReadDir(root, tree, p) ==
    LET at == RelOf(root, p) IN
    IF ~at.in \/ at.rel \notin DOMAIN tree THEN [err |-> "notexist", names |-> <<>>]
    ELSE IF tree[at.rel].type # "dir" \/ tree[at.rel].readErr
         THEN [err |-> "readdir", names |-> <<>>]
    ELSE [err |-> "", names |-> tree[at.rel].kids]

\* sha1 of a file's bytes: injective on the contents of the model, two bytes long
Sha1(data) == <<data, data + 1>>

\* opening and reading p for hashing: [err, sum]; sum is nil (empty) on an error
ReadFileSum(root, tree, p) ==
    LET at == RelOf(root, p) IN
    IF ~at.in \/ at.rel \notin DOMAIN tree THEN [err |-> "open", sum |-> <<>>]
    ELSE IF tree[at.rel].type = "dir" \/ tree[at.rel].readErr
         THEN [err |-> "read", sum |-> <<>>]
    ELSE [err |-> "", sum |-> Sha1(tree[at.rel].data)]

----------------------------------------------------------------------------
(* The mounted trees, as the operating system calls of the engine see them *)

Root1 == Clean(args.path1)
Root2 == Clean(args.path2)

\* the tree a path belongs to
MountOf(p) ==
    IF RelOf(Root1, p).in THEN [root |-> Root1, tree |-> fs.tree1]
    ELSE [root |-> Root2, tree |-> fs.tree2]

OsLstat(p) == Lstat(MountOf(p).root, MountOf(p).tree, p)

OsReadDir(p) == ReadDir(MountOf(p).root, MountOf(p).tree, p)

\* getFileHash: [err, sum]
getFileHash(filename) == ReadFileSum(MountOf(filename).root, MountOf(filename).tree, filename)

----------------------------------------------------------------------------
(* treeEntry *)

\* A treeEntry.  description is the name of the message the code formats
\* ("" for none).  hist is a history field, not one of the struct: the values
\* assigned to result since the entry was last reset.
BlankEntry ==
    [order |-> 0, path1 |-> <<>>, path2 |-> <<>>, info1 |-> NilInfo,
     info2 |-> NilInfo, hasInfo2 |-> FALSE, err |-> "", result |-> kNil,
     description |-> "", hist |-> <<>>]

\* reset with a fault: path2, info2 and hasInfo2 survive the reset
resetKeepsInfo2(e) ==
    [BlankEntry EXCEPT !.path2 = e.path2, !.info2 = e.info2, !.hasInfo2 = e.hasInfo2]

\* reset with a fault: the result survives the reset
resetKeepsResult(e) == [BlankEntry EXCEPT !.result = e.result]

\* treeEntry.reset
reset(e) == BlankEntry

\* self.result = r
SetResult(e, r) == [e EXCEPT !.result = r, !.hist = Append(@, r)]

\* treeEntry.computePath2
computePath2(e, path1RootLen, path2Root) ==
    IF Len(e.path1) > path1RootLen
    THEN [e EXCEPT !.path2 = Join(path2Root, Slice(e.path1, path1RootLen))]
    ELSE [e EXCEPT !.path2 = path2Root]

\* readDirectoryIntoSet: [err, set]
readDirectoryIntoSet(directory, options) ==
    LET rd == OsReadDir(directory) IN
    IF rd.err # "" THEN [err |-> "ReadDir", set |-> {}]
    ELSE [err |-> "",
          set |-> {rd.names[i] : i \in {j \in 1..Len(rd.names) :
                                          <<rd.names[j]>> \notin options.IgnoreFiles}}]

\* treeEntry.compareDirectories
compareDirectories(e, options) ==
    LET dir1 == readDirectoryIntoSet(e.path1, options)
        dir2 == readDirectoryIntoSet(e.path2, options)
    IN IF dir1.err # "" THEN [SetResult(e, kError) EXCEPT !.err = dir1.err]
       ELSE IF dir2.err # "" THEN [SetResult(e, kError) EXCEPT !.err = dir2.err]
       ELSE IF dir1.set = dir2.set THEN SetResult(e, kDirSameEntries)
       ELSE [SetResult(e, kDirDifferentEntries) EXCEPT !.description = "entries"]

\* cmpByteSlices
cmpByteSlices(s1, s2) ==
    /\ Len(s1) = Len(s2)
    /\ \A i \in 1..Len(s1) : s1[i] = s2[i]

\* compareRegularFiles, lines 245-249 and 250-254: a hashing error is recorded
\* on the entry, and the function goes on
AfterHash(e, h) ==
    IF h.err # "" THEN [SetResult(e, kError) EXCEPT !.err = h.err] ELSE e

\* treeEntry.compareRegularFiles
compareRegularFiles(e, options) ==
    IF e.info1.size # e.info2.size
    THEN SetResult([e EXCEPT !.description = "size"], kMismatch)
    ELSE IF options.CheckHashes
    THEN LET hash1 == getFileHash(e.path1)
             e1 == AfterHash(e, hash1)
             hash2 == getFileHash(e.path2)
             e2 == AfterHash(e1, hash2)
         IN IF cmpByteSlices(hash1.sum, hash2.sum)
            THEN SetResult(e2, kPerfectMatch)
            ELSE [SetResult(e2, kMismatch) EXCEPT !.description = "hash"]
    ELSE SetResult(e, kPerfectMatch)

\* treeEntry.comparePaths, lines 86-102: the os.Lstat of path2
StatPath2(e) ==
    IF e.hasInfo2 THEN [err |-> "", info |-> e.info2] ELSE OsLstat(e.path2)

\* Whether comparePaths panics: on an ignored entry (line 84), or calling
\* Mode() on a nil info1 (line 105)
comparePathsPanics(e) ==
    \/ e.result = kIgnored
    \/ StatPath2(e).err = "" /\ e.info1 = NilInfo

\* comparePaths with a fault: the permissions are compared before the types
comparePathsPermsFirst(e, options) ==
    LET st == StatPath2(e) IN
    IF st.err = "notexist" THEN SetResult([e EXCEPT !.info2 = NilInfo], kMissing)
    ELSE IF st.err # "" THEN SetResult([e EXCEPT !.info2 = NilInfo, !.err = st.err], kError)
    ELSE LET e1 == [e EXCEPT !.info2 = st.info, !.hasInfo2 = TRUE] IN
         IF e1.info1.perm # e1.info2.perm
         THEN [SetResult(e1, kDifferentPermissions) EXCEPT !.description = "perms"]
         ELSE IF e1.info1.type # e1.info2.type
         THEN [SetResult(e1, kDifferentTypes) EXCEPT !.description = "types"]
         ELSE IF e1.info1.type = "dir" THEN compareDirectories(e1, options)
         ELSE compareRegularFiles(e1, options)

\* treeEntry.comparePaths (where it does not panic)
comparePaths(e, options) ==
    LET st == StatPath2(e) IN
    IF st.err = "notexist" THEN SetResult([e EXCEPT !.info2 = NilInfo], kMissing)
    ELSE IF st.err # "" THEN SetResult([e EXCEPT !.info2 = NilInfo, !.err = st.err], kError)
    ELSE LET e1 == [e EXCEPT !.info2 = st.info, !.hasInfo2 = TRUE] IN
         IF e1.info1.type # e1.info2.type
         THEN [SetResult(e1, kDifferentTypes) EXCEPT !.description = "types"]
         ELSE IF e1.info1.perm # e1.info2.perm
         THEN [SetResult(e1, kDifferentPermissions) EXCEPT !.description = "perms"]
         ELSE IF e1.info1.type = "dir" THEN compareDirectories(e1, options)
         ELSE compareRegularFiles(e1, options)

----------------------------------------------------------------------------
(* ComparisonEngine *)

Workers == 1..NumWorkers

\* Compare, line 52
numTreeEntries == NumWorkers + 2

Entries == 1..numTreeEntries

NewEngine ==
    [countPerfectMatch |-> 0, countError |-> 0, countDifferentTypes |-> 0,
     countDifferentPerms |-> 0, countMismatch |-> 0, countMissing |-> 0,
     countDirSame |-> 0, countDirDifferent |-> 0, countIgnoredByUser |-> 0,
     path1RootLen |-> 0]

\* Compare, lines 59-65: the loop reads path1[1] whatever i is
RECURSIVE RootLenLoop(_, _, _)
RootLenLoop(path1, i, n) ==
    IF i < 0 THEN n
    ELSE IF path1[2] = Separator THEN RootLenLoop(path1, i - 1, n - 1)
    ELSE n

\* Compare, lines 57-65
ComputeRootLen(path1) == RootLenLoop(path1, Len(path1) - 1, Len(path1) + 1)

\* path1[1] is out of range: the loop body runs (len >= 1) on a string of one byte
RootLenPanics(path1) == Len(path1) = 1

\* the walk function with a fault: it prunes a directory that has nothing
\* beside it in tree 2, as it prunes one beside a non-directory
walkFnPrunesMissing(e0, path, info, err, order, options) ==
    LET e == [e0 EXCEPT !.path1 = path, !.order = order, !.info1 = info] IN
    IF err # ""
    THEN [entry |-> SetResult([e EXCEPT !.description = "walk"], kError), ret |-> "nil"]
    ELSE IF Base(path) \in options.IgnoreFiles
    THEN [entry |-> SetResult(e, kIgnored),
          ret |-> IF info.type = "dir" THEN "SkipDir" ELSE "nil"]
    ELSE IF info.type = "dir"
    THEN LET e1 == computePath2(e, engine.path1RootLen, Root2)
             st == OsLstat(e1.path2)
             e2 == [e1 EXCEPT !.info2 = st.info, !.hasInfo2 = (st.err = "")]
         IN [entry |-> e2,
             ret |-> IF st.err # "" \/ st.info.type # "dir" THEN "SkipDir" ELSE "nil"]
    ELSE [entry |-> e, ret |-> "nil"]

\* The function given to filepath.Walk (readTreeEntries, lines 117-157), from the
\* entry it received to its return: [entry, ret], ret is "nil" or "SkipDir"
walkFn(e0, path, info, err, order, options) ==
    LET e == [e0 EXCEPT !.path1 = path, !.order = order, !.info1 = info] IN
    IF err # ""
    THEN [entry |-> SetResult([e EXCEPT !.description = "walk"], kError), ret |-> "nil"]
    ELSE IF Base(path) \in options.IgnoreFiles
    THEN [entry |-> SetResult(e, kIgnored),
          ret |-> IF info.type = "dir" THEN "SkipDir" ELSE "nil"]
    ELSE IF info.type = "dir"
    THEN LET e1 == computePath2(e, engine.path1RootLen, Root2)
             st == OsLstat(e1.path2)
             e2 == [e1 EXCEPT !.info2 = st.info, !.hasInfo2 = (st.err = "")]
         IN [entry |-> e2,
             ret |-> IF st.err = "" /\ st.info.type # "dir" THEN "SkipDir" ELSE "nil"]
    ELSE [entry |-> e, ret |-> "nil"]

\* filepath.Walk's visit of one path: what it hands to the function
\* ([info, err]) and the names it would walk into next
WalkStep(path) ==
    LET st == OsLstat(path)
        rd == IF st.err = "" /\ st.info.type = "dir" THEN OsReadDir(path)
              ELSE [err |-> "", names |-> <<>>]
    IN [info |-> st.info,
        err |-> IF st.err # "" THEN st.err ELSE rd.err,
        names |-> IF st.err = "" THEN rd.names ELSE <<>>]

\* filepath.Walk: the paths it walks into after the function returned ret on
\* rel: the directory's entries in order, unless there was an error or SkipDir
WalkInto(rel, step, ret) ==
    IF step.err = "" /\ ret = "nil"
    THEN [i \in 1..Len(step.names) |-> Append(rel, step.names[i])]
    ELSE <<>>

\* the worker's loop body with a fault: an entry the walker already found in
\* tree 2 is passed through like an ignored one
compareEntryTrustsWalker(e, options) ==
    IF e.result = kIgnored \/ e.hasInfo2 THEN e
    ELSE comparePaths(computePath2(e, engine.path1RootLen, Root2), options)

\* compareEntries, lines 166-176: what a worker does to one entry
compareEntry(e, options) ==
    IF e.result = kIgnored THEN e
    ELSE IF ~e.hasInfo2
    THEN comparePaths(computePath2(e, engine.path1RootLen, Root2), options)
    ELSE comparePaths(e, options)

\* whether lines 166-176 panic on e
compareEntryPanics(e) ==
    /\ e.result # kIgnored
    /\ IF ~e.hasInfo2
       THEN comparePathsPanics(computePath2(e, engine.path1RootLen, Root2))
       ELSE comparePathsPanics(e)

\* reportResults, lines 222-227
relativePath(e) ==
    IF Len(e.path1) > engine.path1RootLen
    THEN Slice(e.path1, engine.path1RootLen)
    ELSE e.path1

Recognized ==
    {kPerfectMatch, kError, kMissing, kDifferentPermissions, kDifferentTypes,
     kMismatch, kIgnored, kDirSameEntries, kDirDifferentEntries}

\* the counting with a fault: whatever the result, the entry is counted missing
CountAsMissing(eng, result) == [eng EXCEPT !.countMissing = @ + 1]

\* reportResults, lines 218-265: the counter a result increments
Count(eng, result) ==
    CASE result = kPerfectMatch -> [eng EXCEPT !.countPerfectMatch = @ + 1]
      [] result = kError -> [eng EXCEPT !.countError = @ + 1]
      [] result = kMissing -> [eng EXCEPT !.countMissing = @ + 1]
      [] result = kDifferentPermissions -> [eng EXCEPT !.countDifferentPerms = @ + 1]
      [] result = kDifferentTypes -> [eng EXCEPT !.countDifferentTypes = @ + 1]
      [] result = kMismatch -> [eng EXCEPT !.countMismatch = @ + 1]
      [] result = kIgnored -> [eng EXCEPT !.countIgnoredByUser = @ + 1]
      [] result = kDirSameEntries -> [eng EXCEPT !.countDirSame = @ + 1]
      [] result = kDirDifferentEntries -> [eng EXCEPT !.countDirDifferent = @ + 1]

----------------------------------------------------------------------------
(* The inputs of a run: the two trees on disk and Compare's arguments *)

Dir(perm, kids) ==
    [type |-> "dir", perm |-> perm, size |-> 0, data |-> 0,
     lstatErr |-> FALSE, readErr |-> FALSE, kids |-> kids]

File(perm, size, data) ==
    [type |-> "file", perm |-> perm, size |-> size, data |-> data,
     lstatErr |-> FALSE, readErr |-> FALSE, kids |-> <<>>]

\* a node os.Lstat fails on
NoStat(node) == [node EXCEPT !.lstatErr = TRUE]

\* a directory that cannot be listed, a file that cannot be read
NoRead(node) == [node EXCEPT !.readErr = TRUE]

\* The nodes of a tree of one entry: every type, permission, size and content
\* (a file of size n has one of n + 1 contents), readable or not
LoneNodes ==
    {[type |-> "dir", perm |-> p, size |-> 0, data |-> 0, lstatErr |-> FALSE,
      readErr |-> r, kids |-> <<>>] : p \in 0..MaxPerm, r \in BOOLEAN}
    \cup
    {[type |-> t, perm |-> p, size |-> sd[1], data |-> sd[2], lstatErr |-> FALSE,
      readErr |-> r, kids |-> <<>>] :
        t \in {"file", "symlink"}, p \in 0..MaxPerm, r \in BOOLEAN,
        sd \in {x \in (0..MaxSize) \X (0..MaxSize) : x[2] <= x[1]}}
    \cup {NoStat(File(0, 0, 0))}

\* the trees of one entry, and the tree with no entry
LoneTrees == {(<<>> :> n) : n \in LoneNodes}

NoTree == [rel \in {} |-> File(0, 0, 0)]

\* A tree of two directories, d (with h) and e (with j), and a file f
Tree1 ==
    (<<>> :> Dir(1, <<"d", "e", "f">>))
    @@ (<<"d">> :> Dir(1, <<"h">>)) @@ (<<"d", "h">> :> File(1, 1, 0))
    @@ (<<"e">> :> Dir(0, <<"j">>)) @@ (<<"e", "j">> :> File(0, 0, 0))
    @@ (<<"f">> :> File(1, 1, 1))

\* Tree 2 with differences from Tree1: d is a file, e is missing, f has
\* another content of the same size
Tree2Different ==
    (<<>> :> Dir(1, <<"d", "f">>))
    @@ (<<"d">> :> File(1, 0, 0))
    @@ (<<"f">> :> File(1, 1, 0))

\* Tree1 with I/O errors: d cannot be listed, os.Lstat fails on e, f cannot
\* be read
Tree1Errors ==
    (<<>> :> Dir(1, <<"d", "e", "f">>))
    @@ (<<"d">> :> NoRead(Dir(1, <<"h">>))) @@ (<<"d", "h">> :> File(1, 1, 0))
    @@ (<<"e">> :> NoStat(Dir(0, <<"j">>))) @@ (<<"e", "j">> :> File(0, 0, 0))
    @@ (<<"f">> :> NoRead(File(1, 1, 1)))

\* Tree1 without e: beside Tree1Errors, the entry os.Lstat fails on in tree 1
\* is missing from tree 2
Tree2NoE ==
    (<<>> :> Dir(1, <<"d", "f">>))
    @@ (<<"d">> :> Dir(1, <<"h">>)) @@ (<<"d", "h">> :> File(1, 1, 0))
    @@ (<<"f">> :> File(1, 1, 1))

\* the first arguments given to Compare: a root of one byte, a root that
\* path.Clean shortens, a root whose second byte is the separator
Roots1 == {<<"a">>, <<"a", "b", "/">>, <<"a", "/", "b">>}

PlainRoot1 == <<"a", "b", "/">>

SlashRoot1 == <<"a", "/", "b">>

PlainRoot2 == <<"x", "y">>

Options(check, ignore) == [CheckHashes |-> check, IgnoreFiles |-> ignore]

Run(path1, path2, options, tree1, tree2) ==
    [args |-> [path1 |-> path1, path2 |-> path2, options |-> options],
     fs |-> [tree1 |-> tree1, tree2 |-> tree2]]

\* The runs of Compare in the model:
\*  - the same tree on both sides, under every root, hashing;
\*  - the same tree on both sides with ignored names (a directory and a file);
\*  - the trees with differences, with and without hashing, and under the
\*    root whose second byte is the separator;
\*  - the tree with I/O errors, beside a tree 2 that has the entry os.Lstat
\*    fails on and beside one that has not, the latter also ignoring its name
Runs ==
    {Run(r, PlainRoot2, Options(TRUE, {}), Tree1, Tree1) : r \in Roots1}
    \cup
    {Run(PlainRoot1, PlainRoot2, Options(TRUE, {<<"d">>, <<"f">>}), Tree1, Tree1)}
    \cup
    {Run(PlainRoot1, PlainRoot2, Options(c, {}), Tree1, Tree2Different) : c \in BOOLEAN}
    \cup
    {Run(SlashRoot1, PlainRoot2, Options(FALSE, {}), Tree1, Tree2Different)}
    \cup
    {Run(PlainRoot1, PlainRoot2, Options(TRUE, {}), Tree1Errors, Tree1)}
    \cup
    {Run(PlainRoot1, PlainRoot2, Options(TRUE, ig), Tree1Errors, Tree2NoE) :
        ig \in {{}, {<<"e">>}}}

\* The runs of one entry: a tree of one entry of every kind on both sides (or
\* none in tree 2), with and without hashing
LoneRuns ==
    {Run(PlainRoot1, PlainRoot2, Options(c, {}), t1, t2) :
        c \in BOOLEAN, t1 \in LoneTrees, t2 \in LoneTrees \cup {NoTree}}

----------------------------------------------------------------------------
(* The state machine *)

Init ==
    /\ \E run \in Runs : args = run.args /\ fs = run.fs
    /\ engine = NewEngine
    /\ cmpPc = "start"
    /\ compareErr = ""
    /\ fillIdx = 0
    /\ treeEntries = [i \in Entries |-> BlankEntry]
    /\ blankEntryChan = [buf |-> <<>>, closed |-> FALSE]
    /\ filledEntryChan = [buf |-> <<>>, closed |-> FALSE]
    /\ walker = [pc |-> "walk", entry |-> 0, todo |-> << <<>> >>, order |-> 0]
    /\ worker = [w \in Workers |-> [pc |-> "recv", entry |-> 0]]
    /\ relay = [w \in Workers |-> [pc |-> "recv", entry |-> 0]]
    /\ wg = NumWorkers
    /\ outClosed = FALSE
    /\ reportEntry = 0
    /\ panicked = ""
    /\ reports = EmptyBag

\* the goroutines Compare starts run from line 72 on, until a panic ends the process
Running == cmpPc # "start" /\ panicked = ""

(* When each goroutine can take its next step: what its channel operation, *)
(* or the statement it is at, waits for                                    *)

\* Compare is called
CanCompareSetup == cmpPc = "start" /\ panicked = ""

\* Compare, line 88: a send on blankEntryChan, which has room for every entry
CanCompareFill ==
    /\ cmpPc = "fill" /\ panicked = ""
    /\ Len(blankEntryChan.buf) < numTreeEntries

\* readTreeEntries, line 105: a receive from blankEntryChan, which waits while
\* the channel is empty and open
CanWalkerVisit ==
    /\ Running /\ walker.pc = "walk" /\ walker.todo # <<>>
    /\ blankEntryChan.buf # <<>> \/ blankEntryChan.closed

\* readTreeEntries, line 108: a send on filledEntryChan, of capacity numWorkers
CanWalkerPublish ==
    /\ Running /\ walker.pc = "publish"
    /\ Len(filledEntryChan.buf) < NumWorkers

\* readTreeEntries, line 98: filepath.Walk has returned
CanWalkerClose == Running /\ walker.pc = "walk" /\ walker.todo = <<>>

\* compareEntries, line 165: a receive from filledEntryChan
CanWorkerCompare(w) ==
    /\ Running /\ worker[w].pc = "recv"
    /\ filledEntryChan.buf # <<>>

\* compareEntries, lines 167 and 177: a send on the unbuffered responseChan,
\* which waits for the relay's receive (outputFunc, line 190)
CanWorkerSend(w) == Running /\ worker[w].pc = "send" /\ relay[w].pc = "recv"

\* the end of the range with a fault: the worker stops as soon as the channel
\* is closed, whatever it still holds
CanWorkerCloseUndrained(w) ==
    /\ Running /\ worker[w].pc = "recv"
    /\ filledEntryChan.closed

\* compareEntries, line 165: the range over filledEntryChan ends when the
\* channel is closed and empty
CanWorkerClose(w) ==
    /\ Running /\ worker[w].pc = "recv"
    /\ filledEntryChan.buf = <<>> /\ filledEntryChan.closed

\* outputFunc, line 191: a send on the unbuffered out, which waits for the
\* reporter's receive (reportResults, line 213), or panics if out is closed
CanRelayForward(w) ==
    /\ Running /\ relay[w].pc = "send"
    /\ outClosed \/ (cmpPc = "report" /\ reportEntry = 0)

\* outputFunc, line 190: the range over the worker's channel ends when it is closed
CanRelayDone(w) == Running /\ relay[w].pc = "recv" /\ worker[w].pc = "closed"

\* wg.Wait() with a fault: it returns while one relay is still running
CanMergeCloseEarly == Running /\ wg <= 1 /\ ~outClosed

\* mergeResponseChans, line 203: wg.Wait() returns when the counter is zero
CanMergeClose == Running /\ wg = 0 /\ ~outClosed

\* reportResults, line 218: the reporter has received an entry
CanReportResult == Running /\ cmpPc = "count"

\* the end of the reporter's range with a fault: it ends while the merged
\* channel is open
CanReportReturnEarly == Running /\ cmpPc = "report"

\* reportResults, line 213: the range over the merged channel ends when it is closed
CanReportReturn == Running /\ cmpPc = "report" /\ outClosed

\* some goroutine can take a step
CanStep ==
    \/ CanCompareSetup \/ CanCompareFill
    \/ CanWalkerVisit \/ CanWalkerPublish \/ CanWalkerClose
    \/ \E w \in Workers :
          \/ CanWorkerCompare(w) \/ CanWorkerSend(w) \/ CanWorkerClose(w)
          \/ CanRelayForward(w) \/ CanRelayDone(w)
    \/ CanMergeClose \/ CanReportResult \/ CanReportReturn

\* Compare, lines 46-86: clean the roots, make the channels, compute
\* path1RootLen, start the goroutines, allocate the entries
CompareSetup ==
    /\ CanCompareSetup
    /\ IF RootLenPanics(Root1)
       THEN /\ panicked' = "Compare"
            /\ UNCHANGED <<engine, cmpPc>>
       ELSE /\ engine' = [engine EXCEPT !.path1RootLen = ComputeRootLen(Root1)]
            /\ cmpPc' = "fill"
            /\ UNCHANGED panicked
    /\ UNCHANGED <<args, fs, compareErr, fillIdx, treeEntries, blankEntryChan, filledEntryChan,
                   walker, worker, relay, wg, outClosed, reportEntry, reports>>

\* Compare, lines 87-89: queue one blank entry; after the last, call reportResults
CompareFill ==
    /\ CanCompareFill
    /\ blankEntryChan' = [blankEntryChan EXCEPT !.buf = Append(@, fillIdx + 1)]
    /\ fillIdx' = fillIdx + 1
    /\ cmpPc' = IF fillIdx + 1 = numTreeEntries THEN "report" ELSE "fill"
    /\ UNCHANGED <<args, fs, compareErr, engine, treeEntries, filledEntryChan, walker, worker,
                   relay, wg, outClosed, reportEntry, panicked, reports>>

\* readTreeEntries, lines 103-157: filepath.Walk comes to the next path and calls
\* the function, which takes a blank entry (line 105) and fills it.  Taking from
\* the closed, empty channel gives a nil entry, and line 112 panics on it.
WalkerVisit ==
    /\ CanWalkerVisit
    /\ IF blankEntryChan.buf = <<>>
       THEN /\ panicked' = "readTreeEntries"
            /\ UNCHANGED <<treeEntries, blankEntryChan, walker>>
       ELSE LET id == Head(blankEntryChan.buf)
                rel == Head(walker.todo)
                path == AbsPath(Root1, rel)
                step == WalkStep(path)
                cb == walkFn(treeEntries[id], path, step.info, step.err,
                             walker.order, args.options)
                into == WalkInto(rel, step, cb.ret)
            IN /\ blankEntryChan' = [blankEntryChan EXCEPT !.buf = Tail(@)]
               /\ treeEntries' = [treeEntries EXCEPT ![id] = cb.entry]
               /\ walker' = [pc |-> "publish", entry |-> id,
                             todo |-> into \o Tail(walker.todo),
                             order |-> walker.order + 1]
               /\ UNCHANGED panicked
    /\ UNCHANGED <<args, fs, compareErr, engine, cmpPc, fillIdx, filledEntryChan, worker, relay,
                   wg, outClosed, reportEntry, reports>>

\* readTreeEntries, lines 106-109: the deferred send of the entry to filledEntryChan
WalkerPublish ==
    /\ CanWalkerPublish
    /\ filledEntryChan' = [filledEntryChan EXCEPT !.buf = Append(@, walker.entry)]
    /\ walker' = [walker EXCEPT !.pc = "walk", !.entry = 0]
    /\ UNCHANGED <<args, fs, compareErr, engine, cmpPc, fillIdx, treeEntries, blankEntryChan,
                   worker, relay, wg, outClosed, reportEntry, panicked, reports>>

\* readTreeEntries, line 98: the walk is over, close(filledEntryChan)
WalkerClose ==
    /\ CanWalkerClose
    /\ filledEntryChan' = [filledEntryChan EXCEPT !.closed = TRUE]
    /\ walker' = [walker EXCEPT !.pc = "done"]
    /\ UNCHANGED <<args, fs, compareErr, engine, cmpPc, fillIdx, treeEntries, blankEntryChan,
                   worker, relay, wg, outClosed, reportEntry, panicked, reports>>

\* compareEntries, lines 165-176: a worker takes an entry and classifies it
WorkerCompare(w) ==
    /\ CanWorkerCompare(w)
    /\ LET id == Head(filledEntryChan.buf) IN
       /\ filledEntryChan' = [filledEntryChan EXCEPT !.buf = Tail(@)]
       /\ worker' = [worker EXCEPT ![w] = [pc |-> "send", entry |-> id]]
       /\ IF compareEntryPanics(treeEntries[id])
          THEN /\ panicked' = "compareEntries"
               /\ UNCHANGED treeEntries
          ELSE /\ treeEntries' = [treeEntries EXCEPT
                                    ![id] = compareEntry(treeEntries[id], args.options)]
               /\ UNCHANGED panicked
    /\ UNCHANGED <<args, fs, compareErr, engine, cmpPc, fillIdx, blankEntryChan, walker, relay,
                   wg, outClosed, reportEntry, reports>>

\* compareEntries, lines 167 and 177, with outputFunc, line 190: the worker's send
\* on its unbuffered responseChan meets its relay's receive
WorkerSend(w) ==
    /\ CanWorkerSend(w)
    /\ relay' = [relay EXCEPT ![w] = [pc |-> "send", entry |-> worker[w].entry]]
    /\ worker' = [worker EXCEPT ![w] = [pc |-> "recv", entry |-> 0]]
    /\ UNCHANGED <<args, fs, compareErr, engine, cmpPc, fillIdx, treeEntries, blankEntryChan,
                   filledEntryChan, walker, wg, outClosed, reportEntry, panicked, reports>>

\* compareEntries, line 163: filledEntryChan is closed and drained,
\* close(responseChan)
WorkerClose(w) ==
    /\ CanWorkerClose(w)
    /\ worker' = [worker EXCEPT ![w] = [pc |-> "closed", entry |-> 0]]
    /\ UNCHANGED <<args, fs, compareErr, engine, cmpPc, fillIdx, treeEntries, blankEntryChan,
                   filledEntryChan, walker, relay, wg, outClosed, reportEntry,
                   panicked, reports>>

\* outputFunc, line 191, with reportResults, line 213: a relay's send on the
\* unbuffered merged channel meets the reporter's receive.  A send on the closed
\* channel panics.
RelayForward(w) ==
    /\ CanRelayForward(w)
    /\ IF outClosed
       THEN /\ panicked' = "outputFunc"
            /\ UNCHANGED <<relay, reportEntry, cmpPc>>
       ELSE /\ reportEntry' = relay[w].entry
            /\ relay' = [relay EXCEPT ![w] = [pc |-> "recv", entry |-> 0]]
            /\ cmpPc' = "count"
            /\ UNCHANGED panicked
    /\ UNCHANGED <<args, fs, compareErr, engine, fillIdx, treeEntries, blankEntryChan,
                   filledEntryChan, walker, worker, wg, outClosed, reports>>

\* outputFunc, line 193: the worker's channel is closed, wg.Done()
RelayDone(w) ==
    /\ CanRelayDone(w)
    /\ relay' = [relay EXCEPT ![w] = [pc |-> "done", entry |-> 0]]
    /\ wg' = wg - 1
    /\ UNCHANGED <<args, fs, compareErr, engine, cmpPc, fillIdx, treeEntries, blankEntryChan,
                   filledEntryChan, walker, worker, outClosed, reportEntry,
                   panicked, reports>>

\* mergeResponseChans, lines 202-205: wg.Wait() returns, close(out)
MergeClose ==
    /\ CanMergeClose
    /\ outClosed' = TRUE
    /\ UNCHANGED <<args, fs, compareErr, engine, cmpPc, fillIdx, treeEntries, blankEntryChan,
                   filledEntryChan, walker, worker, relay, wg, reportEntry,
                   panicked, reports>>

\* the recycling with a fault: the entry is not sent back
RecycleDropped(chan, id) == chan

\* the recycling with a fault: the entry is sent back twice
RecycleTwice(chan, id) == [chan EXCEPT !.buf = Append(Append(@, id), id)]

\* reportResults, line 270: send the entry to blankEntryChan
Recycle(chan, id) == [chan EXCEPT !.buf = Append(@, id)]

\* reportResults, lines 218-270: count and report the entry, then recycle it.
\* An unrecognized result panics (line 263), and so does a send on the closed
\* blankEntryChan.
ReportResult ==
    /\ CanReportResult
    /\ LET e == treeEntries[reportEntry] IN
       IF e.result \notin Recognized \/ blankEntryChan.closed
       THEN /\ panicked' = "reportResults"
            /\ UNCHANGED <<engine, reports, treeEntries, blankEntryChan, cmpPc,
                           reportEntry>>
       ELSE /\ engine' = Count(engine, e.result)
            /\ reports' = reports (+) SetToBag({<<relativePath(e), e.result, e.path1>>})
            /\ treeEntries' = [treeEntries EXCEPT ![reportEntry] = reset(e)]
            /\ blankEntryChan' = Recycle(blankEntryChan, reportEntry)
            /\ cmpPc' = "report"
            /\ reportEntry' = 0
            /\ UNCHANGED panicked
    /\ UNCHANGED <<args, fs, compareErr, fillIdx, filledEntryChan, walker, worker, relay, wg,
                   outClosed>>

\* reportResults, lines 211-213 and 273: the merged channel is closed,
\* close(blankEntryChan) and return nil
ReportReturn ==
    /\ CanReportReturn
    /\ blankEntryChan' = [blankEntryChan EXCEPT !.closed = TRUE]
    /\ cmpPc' = "returned"
    /\ compareErr' = "nil"
    /\ UNCHANGED <<args, fs, engine, fillIdx, treeEntries, filledEntryChan, walker,
                   worker, relay, wg, outClosed, reportEntry, panicked, reports>>

Next ==
    \/ CompareSetup
    \/ CompareFill
    \/ WalkerVisit
    \/ WalkerPublish
    \/ WalkerClose
    \/ \E w \in Workers : WorkerCompare(w)
    \/ \E w \in Workers : WorkerSend(w)
    \/ \E w \in Workers : WorkerClose(w)
    \/ \E w \in Workers : RelayForward(w)
    \/ \E w \in Workers : RelayDone(w)
    \/ MergeClose
    \/ ReportResult
    \/ ReportReturn

Spec == Init /\ [][Next]_vars

----------------------------------------------------------------------------
(* One entry taken through the walker's function and a worker's comparison,  *)
(* without the pipeline: the classification as a function of the two trees   *)

InitLone ==
    /\ \E run \in LoneRuns : args = run.args /\ fs = run.fs
    /\ engine = [NewEngine EXCEPT !.path1RootLen = ComputeRootLen(Root1)]
    /\ cmpPc = "lone"
    /\ compareErr = ""
    /\ fillIdx = 0
    /\ treeEntries = [i \in Entries |-> BlankEntry]
    /\ blankEntryChan = [buf |-> <<>>, closed |-> FALSE]
    /\ filledEntryChan = [buf |-> <<>>, closed |-> FALSE]
    /\ walker = [pc |-> "walk", entry |-> 1, todo |-> << <<>> >>, order |-> 0]
    /\ worker = [w \in Workers |-> [pc |-> "recv", entry |-> 0]]
    /\ relay = [w \in Workers |-> [pc |-> "recv", entry |-> 0]]
    /\ wg = NumWorkers
    /\ outClosed = FALSE
    /\ reportEntry = 0
    /\ panicked = ""
    /\ reports = EmptyBag

\* the walker's function on the root, with entry 1
LoneWalk ==
    /\ cmpPc = "lone" /\ walker.pc = "walk"
    /\ LET step == WalkStep(Root1)
           cb == walkFn(treeEntries[1], Root1, step.info, step.err, 0, args.options)
       IN treeEntries' = [treeEntries EXCEPT ![1] = cb.entry]
    /\ walker' = [walker EXCEPT !.pc = "publish", !.todo = <<>>, !.order = 1]
    /\ UNCHANGED <<args, fs, compareErr, engine, cmpPc, fillIdx, blankEntryChan, filledEntryChan,
                   worker, relay, wg, outClosed, reportEntry, panicked, reports>>

\* a worker's comparison of entry 1
LoneCompare ==
    /\ cmpPc = "lone" /\ walker.pc = "publish" /\ panicked = ""
    /\ IF compareEntryPanics(treeEntries[1])
       THEN /\ panicked' = "compareEntries"
            /\ UNCHANGED treeEntries
       ELSE /\ treeEntries' = [treeEntries EXCEPT
                                 ![1] = compareEntry(treeEntries[1], args.options)]
            /\ UNCHANGED panicked
    /\ walker' = [walker EXCEPT !.pc = "done"]
    /\ UNCHANGED <<args, fs, compareErr, engine, cmpPc, fillIdx, blankEntryChan, filledEntryChan,
                   worker, relay, wg, outClosed, reportEntry, reports>>

NextLone == LoneWalk \/ LoneCompare

SpecLone == InitLone /\ [][NextLone]_vars

----------------------------------------------------------------------------
(* Properties *)

\* the entries in the pipeline: in the channels and in the goroutines' hands
Held ==
    Len(blankEntryChan.buf) + Len(filledEntryChan.buf)
    + (IF walker.entry # 0 THEN 1 ELSE 0)
    + Cardinality({w \in Workers : worker[w].entry # 0})
    + Cardinality({w \in Workers : relay[w].entry # 0})
    + (IF reportEntry # 0 THEN 1 ELSE 0)

\* the entries of Compare's array that its goroutine (the one that goes on to
\* run reportResults) has not queued yet
Unqueued == (NumWorkers + 2) - fillIdx

\* C1: with W workers there are exactly W+2 entries: those held by the blank
\* channel, the walker, the filled channel, the workers, the relays and the
\* reporter (whose goroutine also holds the ones Compare has still to queue)
\* always number W+2; the blank channel never holds more than W+2, the filled
\* channel never more than W; and when Compare has returned the blank channel
\* holds all W+2.
C1_PoolInvariant ==
    /\ Held + Unqueued = NumWorkers + 2
    /\ Len(blankEntryChan.buf) <= NumWorkers + 2
    /\ Len(filledEntryChan.buf) <= NumWorkers
    /\ cmpPc = "returned" => Len(blankEntryChan.buf) = NumWorkers + 2

\* C1's case: Compare has returned from a walk of more entries than the pool
\* has, so entries were recycled, and the pool is whole
C1_Witness ==
    /\ cmpPc = "returned"
    /\ walker.order > NumWorkers + 2
    /\ Len(blankEntryChan.buf) = NumWorkers + 2

\* C2: Compare always returns.  No run stops before Compare has returned (in
\* every state in which it has not, some goroutine can take a step, and a walk
\* is finite), and Compare returns only after the walk is over, the merged
\* channel is closed and the reporter has processed every entry the walker
\* published.
C2_CompareReturns ==
    /\ cmpPc = "returned" \/ CanStep
    /\ cmpPc = "returned" =>
          /\ outClosed /\ walker.pc = "done"
          /\ BagCardinality(reports) = walker.order

\* a tree of directories and regular files only, without I/O errors
IsPlain(tree) ==
    \A rel \in DOMAIN tree :
        tree[rel].type \in {"dir", "file"} /\ ~tree[rel].lstatErr /\ ~tree[rel].readErr

NumOfType(tree, type) == Cardinality({rel \in DOMAIN tree : tree[rel].type = type})

\* C3: for two identical trees of directories and regular files, under any
\* root of tree 1, with hashing (and nothing ignored), Compare ends with every
\* file counted as a perfect match, every directory as having the same
\* entries, and every other counter zero.
C3_IdenticalTrees ==
    (/\ cmpPc = "returned"
     /\ fs.tree1 = fs.tree2 /\ IsPlain(fs.tree1)
     /\ args.options.CheckHashes /\ args.options.IgnoreFiles = {})
    => engine = [NewEngine EXCEPT
                    !.countPerfectMatch = NumOfType(fs.tree1, "file"),
                    !.countDirSame = NumOfType(fs.tree1, "dir"),
                    !.path1RootLen = engine.path1RootLen]

\* C4: Compare returns no error, and no outcome of a single path (a
\* difference, a missing path, an I/O error on it) aborts the run: neither a
\* worker nor the reporter panics on an entry.
C4_PathOutcomesOnlyCounted ==
    /\ compareErr \in {"", "nil"}
    /\ panicked \notin {"compareEntries", "reportResults"}

\* C5: with hashing, a pair of regular files of equal type, permissions and
\* size of which one cannot be opened or read for hashing reaches the reporter
\* classified as an error.
C5_HashErrorIsError ==
    cmpPc = "count" =>
        LET e == treeEntries[reportEntry] IN
        (/\ args.options.CheckHashes
         /\ e.hasInfo2 /\ e.info1.type = "file" /\ e.info2.type = "file"
         /\ e.info1.perm = e.info2.perm /\ e.info1.size = e.info2.size
         /\ getFileHash(e.path1).err # "" \/ getFileHash(e.path2).err # "")
        => e.result = kError

\* C6: an entry for which the walk reported an I/O error reaches the reporter
\* classified as an error, and no worker panics on it.
C6_WalkErrorIsError ==
    /\ panicked # "compareEntries"
    /\ cmpPc = "count" =>
         LET e == treeEntries[reportEntry] IN
         WalkStep(e.path1).err # "" => e.result = kError

\* C7: the result of an entry is assigned once in a pass: no entry has had
\* its result assigned twice since its reset, and an entry at the reporter
\* has had it assigned exactly once.
C7_ClassifiedOnce ==
    /\ \A id \in Entries : Len(treeEntries[id].hist) <= 1
    /\ cmpPc = "count" => Len(treeEntries[reportEntry].hist) = 1

\* C8: an entry whose basename is ignored is never classified as missing,
\* mismatch, different types or different permissions; an entry classified as
\* ignored carries nothing but what the walker wrote; and no entry lies below
\* an ignored directory of tree 1.
C8_Ignored ==
    \A id \in Entries :
        LET e == treeEntries[id]
            at == RelOf(Root1, e.path1)
        IN e.path1 # <<>> =>
           /\ Base(e.path1) \in args.options.IgnoreFiles =>
                e.result \notin {kMissing, kMismatch, kDifferentTypes,
                                 kDifferentPermissions}
           /\ e.result = kIgnored =>
                /\ e.hist = <<kIgnored>> /\ e.path2 = <<>> /\ ~e.hasInfo2
                /\ e.info2 = NilInfo /\ e.err = "" /\ e.description = ""
           /\ at.in =>
                \A i \in 1..(Len(at.rel) - 1) :
                    \/ <<at.rel[i]>> \notin args.options.IgnoreFiles
                    \/ fs.tree1[SubSeq(at.rel, 1, i)].type # "dir"

\* C9: the first rule that matches decides.  For an entry both trees have:
\* different types give different-types, whatever the permissions, sizes and
\* contents; equal types and different permissions give different-permissions;
\* regular files of equal permissions and different sizes give a mismatch
\* without hashing (the size message, no hashing error); with equal sizes and
\* no hashing they match, whatever their contents; with equal sizes and
\* hashing, the contents of two readable files decide.
C9_Precedence ==
    (/\ cmpPc = "lone" /\ walker.pc = "done" /\ panicked = ""
     /\ <<>> \in DOMAIN fs.tree2
     /\ ~fs.tree1[<<>>].lstatErr /\ ~fs.tree2[<<>>].lstatErr)
    => LET e == treeEntries[1]
           n1 == fs.tree1[<<>>]
           n2 == fs.tree2[<<>>]
       IN /\ n1.type # n2.type => e.result = kDifferentTypes
          /\ (n1.type = n2.type /\ n1.perm # n2.perm) =>
                e.result = kDifferentPermissions
          /\ (n1.type = "file" /\ n2.type = "file" /\ n1.perm = n2.perm) =>
                /\ n1.size # n2.size =>
                     /\ e.result = kMismatch /\ e.description = "size"
                     /\ e.err = "" /\ e.hist = <<kMismatch>>
                /\ (n1.size = n2.size /\ ~args.options.CheckHashes) =>
                     e.result = kPerfectMatch /\ e.err = ""
                /\ (n1.size = n2.size /\ args.options.CheckHashes
                    /\ ~n1.readErr /\ ~n2.readErr) =>
                     e.result = IF n1.data = n2.data THEN kPerfectMatch ELSE kMismatch

\* C9's case: an entry whose two sides differ in type and in permissions has
\* been compared, and is classified by its types
C9_Witness ==
    /\ cmpPc = "lone" /\ walker.pc = "done"
    /\ <<>> \in DOMAIN fs.tree2
    /\ ~fs.tree1[<<>>].lstatErr /\ ~fs.tree2[<<>>].lstatErr
    /\ fs.tree1[<<>>].type # fs.tree2[<<>>].type
    /\ fs.tree1[<<>>].perm # fs.tree2[<<>>].perm
    /\ fs.tree1[<<>>].size # fs.tree2[<<>>].size
    /\ treeEntries[1].result = kDifferentTypes

\* The entries of a run in which one goroutine does everything in turn: walk
\* onto a path, compare it, go on.  A panic ends the walk.
RECURSIVE SeqWalk(_, _, _)
SeqWalk(todo, order, acc) ==
    IF todo = <<>> THEN acc
    ELSE LET rel == Head(todo)
             path == AbsPath(Root1, rel)
             step == WalkStep(path)
             cb == walkFn(BlankEntry, path, step.info, step.err, order, args.options)
         IN IF compareEntryPanics(cb.entry) THEN acc
            ELSE SeqWalk(WalkInto(rel, step, cb.ret) \o Tail(todo), order + 1,
                         Append(acc, compareEntry(cb.entry, args.options)))

SeqEntries == SeqWalk(<< <<>> >>, 0, <<>>)

RECURSIVE CountAll(_, _)
CountAll(eng, es) ==
    IF es = <<>> THEN eng ELSE CountAll(Count(eng, Head(es).result), Tail(es))

RECURSIVE ReportAll(_)
ReportAll(es) ==
    IF es = <<>> THEN EmptyBag
    ELSE SetToBag({<<relativePath(Head(es)), Head(es).result, Head(es).path1>>})
         (+) ReportAll(Tail(es))

\* C10: the outcome does not depend on the schedule.  When Compare has
\* returned, the nine counters and the bag of reports (relative path and
\* result, with the path each is about) are those of the run in which one
\* goroutine walks and compares the entries in turn: a function of the trees
\* and the arguments alone.
C10_ScheduleIndependent ==
    cmpPc = "returned" =>
        /\ engine = CountAll([NewEngine EXCEPT !.path1RootLen = engine.path1RootLen],
                             SeqEntries)
        /\ reports = ReportAll(SeqEntries)

\* C10's case: Compare has returned from a run that recycled entries and
\* reported at least three different results
C10_Witness ==
    /\ cmpPc = "returned"
    /\ walker.order > NumWorkers + 2
    /\ Cardinality({x[2] : x \in BagToSet(reports)}) >= 3

\* how many times the channel's buffer holds entry id
Occurrences(buf, id) == Cardinality({i \in 1..Len(buf) : buf[i] = id})

\* the number of places that hold entry id: the channels and the goroutines'
\* entry variables
Holders(id) ==
    Occurrences(blankEntryChan.buf, id) + Occurrences(filledEntryChan.buf, id)
    + (IF walker.entry = id THEN 1 ELSE 0)
    + Cardinality({w \in Workers : worker[w].entry = id})
    + Cardinality({w \in Workers : relay[w].entry = id})
    + (IF reportEntry = id THEN 1 ELSE 0)

\* a step changes entry id only in the hands of the goroutine that holds it:
\* the walker, which has just received it from blankEntryChan; a worker,
\* which has just received it from filledEntryChan; or the reporter
WrittenByHolder(id) ==
    treeEntries'[id] # treeEntries[id] =>
        \/ blankEntryChan.buf # <<>> /\ Head(blankEntryChan.buf) = id
           /\ walker'.entry = id
        \/ filledEntryChan.buf # <<>> /\ Head(filledEntryChan.buf) = id
           /\ \E w \in Workers : worker[w].entry = 0 /\ worker'[w].entry = id
        \/ reportEntry = id

\* C11: single ownership.  Every entry Compare has queued is in exactly one
\* place (a channel, the walker, a worker, a relay or the reporter; the
\* hand-offs on the unbuffered channels are single steps), an entry Compare
\* has not queued yet is in none of them, and every step changes an entry
\* only in the hands of the one goroutine that holds it.
C11_SingleOwnership ==
    /\ [](\A id \in Entries : Holders(id) = IF id <= fillIdx THEN 1 ELSE 0)
    /\ [][\A id \in Entries : WrittenByHolder(id)]_vars

\* C11's case: all the entries are out of the free channel at once, with the
\* walker, a worker, a relay and the reporter
C11_Witness ==
    /\ walker.entry # 0 /\ reportEntry # 0
    /\ \E w \in Workers : worker[w].entry # 0
    /\ \E w \in Workers : relay[w].entry # 0
    /\ panicked = ""

\* C12: the merged channel is closed only when every worker has closed its
\* channel and every relay has forwarded what it received and is done (the
\* WaitGroup counter is zero); no relay sends on it once it is closed; and
\* once closed it stays closed, the closing step being taken once.
C12_MergeCloseOrder ==
    /\ [](outClosed =>
            /\ wg = 0
            /\ \A w \in Workers :
                 /\ worker[w].pc = "closed" /\ worker[w].entry = 0
                 /\ relay[w].pc = "done" /\ relay[w].entry = 0)
    /\ [](panicked # "outputFunc")
    /\ [][(outClosed => outClosed') /\ (outClosed' # outClosed => ~outClosed /\ wg = 0)]_vars

\* C12's case: the merged channel has been closed, after a walk of more
\* entries than the pool has went through the relays, and the reporter has
\* not returned yet
C12_Witness ==
    /\ outClosed /\ cmpPc = "report"
    /\ BagCardinality(reports) > NumWorkers + 2

\* C13: filledEntryChan is closed only when the walk is over and the walker
\* holds no entry, and nothing is added to it once it is closed; a worker
\* closes its channel only when filledEntryChan is closed and empty and the
\* worker has handed over what it took; an entry a worker has taken and not
\* yet handed over is classified; and when Compare has returned the queue is
\* empty and every published entry has been reported.
C13_ShutdownOrder ==
    /\ [](filledEntryChan.closed =>
            walker.pc = "done" /\ walker.entry = 0 /\ walker.todo = <<>>)
    /\ [](\A w \in Workers :
            /\ worker[w].pc = "closed" =>
                 /\ filledEntryChan.closed /\ filledEntryChan.buf = <<>>
                 /\ worker[w].entry = 0
            /\ (worker[w].pc = "send" /\ panicked = "") =>
                 treeEntries[worker[w].entry].result # kNil)
    /\ [](cmpPc = "returned" =>
            filledEntryChan.buf = <<>> /\ BagCardinality(reports) = walker.order)
    /\ [][filledEntryChan.closed =>
            Len(filledEntryChan'.buf) <= Len(filledEntryChan.buf)]_vars

\* C13's case: the queue is closed, one worker has closed its channel, and
\* the other still holds, classified, the last entry the walker published
C13_Witness ==
    /\ filledEntryChan.closed /\ panicked = ""
    /\ \E w \in Workers : worker[w].pc = "closed"
    /\ \E w \in Workers :
         /\ worker[w].pc = "send"
         /\ treeEntries[worker[w].entry].order = walker.order - 1
         /\ treeEntries[worker[w].entry].result # kNil

\* C14: every entry in blankEntryChan is in the state reset leaves it in
\* (order 0, empty paths, nil infos, hasInfo2 false, nil err, result kNil,
\* empty description), and so are the entries Compare has not queued yet:
\* the walker never receives an entry that carries data.
C14_PoolIsReset ==
    /\ \A i \in 1..Len(blankEntryChan.buf) :
         treeEntries[blankEntryChan.buf[i]] = BlankEntry
    /\ \A id \in Entries : id > fillIdx => treeEntries[id] = BlankEntry

\* C14's case: an entry that was used and reported is back in the free
\* channel, while the walker holds an entry on its second use or later
C14_Witness ==
    /\ blankEntryChan.buf # <<>>
    /\ BagCardinality(reports) > NumWorkers + 2
    /\ walker.entry # 0
    /\ treeEntries[walker.entry].order >= NumWorkers + 2

\* Whether the walk is meant to reach rel of tree 1: every directory above it
\* can be read, is not ignored, and is beside a directory of tree 2 or beside
\* nothing
Reach(rel) ==
    /\ rel \in DOMAIN fs.tree1
    /\ \A i \in 0..(Len(rel) - 1) :
         LET up == SubSeq(rel, 1, i) IN
         /\ fs.tree1[up].type = "dir"
         /\ ~fs.tree1[up].lstatErr /\ ~fs.tree1[up].readErr
         /\ Base(AbsPath(Root1, up)) \notin args.options.IgnoreFiles
         /\ up \in DOMAIN fs.tree2 =>
              fs.tree2[up].lstatErr \/ fs.tree2[up].type = "dir"

\* rel is a directory of tree 1 the walk reaches, that is not ignored and on
\* which os.Lstat succeeds
WalkedDir(rel) ==
    /\ Reach(rel)
    /\ fs.tree1[rel].type = "dir" /\ ~fs.tree1[rel].lstatErr
    /\ Base(AbsPath(Root1, rel)) \notin args.options.IgnoreFiles

\* up is a proper prefix of rel
Above(up, rel) == Len(up) < Len(rel) /\ SubSeq(rel, 1, Len(up)) = up

\* C15: for a directory of tree 1 that is not ignored and is beside an entry
\* of tree 2 that is not a directory, no entry is ever filled for a path
\* below it, and its own entry is at the reporter classified as different
\* types.
C15_NonDirPrunes ==
    \A rel \in DOMAIN fs.tree1 :
        (/\ WalkedDir(rel)
         /\ rel \in DOMAIN fs.tree2
         /\ ~fs.tree2[rel].lstatErr /\ fs.tree2[rel].type # "dir")
        => /\ \A id \in Entries :
                LET at == RelOf(Root1, treeEntries[id].path1) IN
                treeEntries[id].path1 # <<>> /\ at.in => ~Above(rel, at.rel)
           /\ (cmpPc = "count"
                /\ treeEntries[reportEntry].path1 = AbsPath(Root1, rel))
              => treeEntries[reportEntry].result = kDifferentTypes

\* the entries of tree 1 at or below rel that the walk is meant to reach,
\* that are not ignored and have no walk error
WalkedFrom(rel) ==
    {r \in DOMAIN fs.tree1 :
        /\ r = rel \/ Above(rel, r)
        /\ Reach(r)
        /\ ~fs.tree1[r].lstatErr
        /\ ~(fs.tree1[r].type = "dir" /\ fs.tree1[r].readErr)
        /\ Base(AbsPath(Root1, r)) \notin args.options.IgnoreFiles}

C17_Path2OfPath1 ==
    /\ panicked # "Compare"
    /\ cmpPc # "start" => engine.path1RootLen = Len(Root1) + 1
    /\ \A id \in Entries :
         LET e == treeEntries[id] IN
         e.path2 # <<>> =>
            e.path2 = IF e.path1 = Root1 THEN Root2
                      ELSE Join(Root2, Slice(e.path1, Len(Root1) + 1))

\* C18: an entry at the reporter has one of the nine results the reporter
\* counts, never kNil or kGoodEnough, and the reporter never panics.
C18_RecognizedAtReporter ==
    /\ cmpPc = "count" =>
         /\ treeEntries[reportEntry].result \in Recognized
         /\ treeEntries[reportEntry].result \notin {kNil, kGoodEnough}
    /\ panicked # "reportResults"

\* C18's case: the reporter holds an entry of a directory that the walker
\* found in tree 2 and left unclassified, and that a worker classified
C18_Witness ==
    /\ cmpPc = "count"
    /\ treeEntries[reportEntry].info1.type = "dir"
    /\ treeEntries[reportEntry].hasInfo2
    /\ treeEntries[reportEntry].hist = <<kDirDifferentEntries>>

\* C19: blankEntryChan is closed only when the walk is over and Compare has
\* returned; the walker never receives from the closed blankEntryChan (no
\* panic on the nil entry, line 112); and no goroutine sends on a closed
\* channel: blankEntryChan, filledEntryChan, a worker's channel or the
\* merged channel.
C19_NoUseAfterClose ==
    /\ blankEntryChan.closed =>
         /\ walker.pc = "done" /\ cmpPc = "returned"
         /\ reportEntry = 0
    /\ panicked \notin {"readTreeEntries", "outputFunc", "reportResults"}
    /\ filledEntryChan.closed => walker.pc # "publish"
    /\ \A w \in Workers :
         /\ worker[w].pc = "closed" => worker[w].entry = 0
         /\ outClosed => relay[w].pc # "send"

\* C19's case: every channel has been closed in turn, after a walk that
\* recycled entries
C19_Witness ==
    /\ blankEntryChan.closed /\ filledEntryChan.closed /\ outClosed
    /\ \A w \in Workers : worker[w].pc = "closed"
    /\ walker.order > NumWorkers + 2

\* the sum of the nine counters
SumCounters(eng) ==
    eng.countPerfectMatch + eng.countError + eng.countDifferentTypes
    + eng.countDifferentPerms + eng.countMismatch + eng.countMissing
    + eng.countDirSame + eng.countDirDifferent + eng.countIgnoredByUser

\* the counter the summary prints for a result
CounterOf(eng, result) ==
    CASE result = kPerfectMatch -> eng.countPerfectMatch
      [] result = kError -> eng.countError
      [] result = kMissing -> eng.countMissing
      [] result = kDifferentPermissions -> eng.countDifferentPerms
      [] result = kDifferentTypes -> eng.countDifferentTypes
      [] result = kMismatch -> eng.countMismatch
      [] result = kIgnored -> eng.countIgnoredByUser
      [] result = kDirSameEntries -> eng.countDirSame
      [] result = kDirDifferentEntries -> eng.countDirDifferent
      [] OTHER -> -1

\* the published entries that have not been reported yet
InFlight ==
    Len(filledEntryChan.buf)
    + Cardinality({w \in Workers : worker[w].entry # 0})
    + Cardinality({w \in Workers : relay[w].entry # 0})
    + (IF reportEntry # 0 THEN 1 ELSE 0)

\* C20: every entry the walker has published is on its way to the reporter
\* or has been reported, once (no path is reported twice); the counters sum
\* to the number of reports; a counter changes only in the reporter's step,
\* which adds one to the counter of the entry's result and to no other; and
\* when Compare has returned the counters sum to the number of entries the
\* walker visited.
C20_ExactlyOnce ==
    /\ [](walker.order = BagCardinality(reports) + InFlight
                         + (IF walker.entry # 0 THEN 1 ELSE 0))
    /\ [](\A x \in BagToSet(reports) : CopiesIn(x, reports) = 1)
    /\ [](SumCounters(engine) = BagCardinality(reports))
    /\ [](cmpPc = "returned" => SumCounters(engine) = walker.order)
    /\ [][SumCounters(engine') # SumCounters(engine) =>
            LET r == treeEntries[reportEntry].result IN
            /\ cmpPc = "count"
            /\ SumCounters(engine') = SumCounters(engine) + 1
            /\ CounterOf(engine', r) = CounterOf(engine, r) + 1
            /\ BagCardinality(reports') = BagCardinality(reports) + 1]_vars

\* C20's case: Compare has returned from a walk of more entries than the
\* pool has, with three counters or more above zero
C20_Witness ==
    /\ cmpPc = "returned"
    /\ SumCounters(engine) > NumWorkers + 2
    /\ Cardinality({r \in Recognized : CounterOf(engine, r) > 0}) >= 3

====
